---- MODULE Spec2Model ----
(***************************************************************************)
(* A model of microbit_manager.py: the MicrobitManager object (its mount   *)
(* flag, recorded block device, manual-unmount latch and status line), the *)
(* operations mount_microbit, unmount_microbit and copy_hex_file, the poll *)
(* and key handling of main_loop, the cleanup of run, and the part of the  *)
(* operating system these read and change (USB enumeration, block-device   *)
(* tree, mount table, mount-point directory).                              *)
(*                                                                         *)
(* A diagnostic text is a sequence of fragments; lower() is applied        *)
(* fragment by fragment and "x in text" is containment of x in a fragment. *)
(***************************************************************************)
EXTENDS Naturals, Sequences, FiniteSets

VARIABLES
  is_mounted,         \* self.is_mounted
  microbit_device,    \* self.microbit_device ("None" or a /dev path)
  status_message,     \* self.status_message
  manual_unmount,     \* self.manual_unmount (the latch)
  selected_file_idx,  \* self.selected_file_idx
  hex_files,          \* number of entries of the list main_loop took this cycle
  pc,                 \* where run() is: "poll", "input", "exited"
  lsusb,              \* OS: what `lsusb` prints
  blk,                \* OS: what `lsblk -J` prints and which /dev nodes answer
  mount_table,        \* OS: who mounted what the mount table holds at the mount point
  mp_exists,          \* OS: the mount-point directory exists
  last,               \* history: the step taken last and the call it made
  inputs              \* history: what the commands and queries of a single call gave

vars == << is_mounted, microbit_device, status_message, manual_unmount,
           selected_file_idx, hex_files, pc, lsusb, blk, mount_table,
           mp_exists, last, inputs >>

ui == << selected_file_idx, hex_files >>
env == << lsusb, blk, mount_table, mp_exists >>

----------------------------------------------------------------------------
(* Bounds *)

MaxDiagLen == 2     \* fragments in a diagnostic text
MaxFiles == 1       \* .hex files a listing of the Downloads directory holds
MaxLines == 2       \* lines of a validated file after its blank lines
MaxPad == 10        \* blank lines a validated file starts with
MaxEntries == 2     \* entries os.listdir gives for the mount point
MaxNames == 3       \* file names on the device, numbered in their order
MaxSize == 2        \* file sizes and free space range over 0..MaxSize

None == "None"
mount_point == "/mnt/microbit"

----------------------------------------------------------------------------
(* Texts: diagnostics and messages *)

\* Fragments a diagnostic of mount, umount, mkdir or cp is made of.
Words == { "already mounted", "ALREADY MOUNTED", "not mounted",
           "target is busy", "device is busy", "Permission denied",
           "No such file or directory", "wrong fs type" }

\* str.lower() on one fragment.
LowerWord(w) ==
  CASE w = "ALREADY MOUNTED" -> "already mounted"
    [] w = "Permission denied" -> "permission denied"
    [] w = "No such file or directory" -> "no such file or directory"
    [] w = "Command failed with exit code" -> "command failed with exit code"
    [] w = "No space left on device" -> "no space left on device"
    [] w = "Input/output error" -> "input/output error"
    [] OTHER -> w

\* Lower with the lowering forgotten.
LowerNothing(text) == text

\* str.lower() on a text.
Lower(text) == [i \in DOMAIN text |-> LowerWord(text[i])]

\* The searched phrases that are substrings of a (lowercase) fragment.
PhrasesOf(w) ==
  CASE w = "no such file or directory" -> {w, "no such file"}
    [] w = "no space left on device" -> {w, "no space left"}
    [] OTHER -> {w}

\* phrase in text
Contains(text, phrase) == \E i \in DOMAIN text : phrase \in PhrasesOf(text[i])

SeqsUpTo(S, n) == UNION { [1..k -> S] : k \in 0..n }

\* Every diagnostic of at most MaxDiagLen fragments, the empty one included.
Diags == SeqsUpTo(Words, MaxDiagLen)

\* The diagnostics of one fragment, one for each way mount and umount fail.
ShortDiags ==
  { <<w>> : w \in Words \ { "ALREADY MOUNTED", "device is busy" } }

Msg(text, dev, diag) == [text |-> text, dev |-> dev, diag |-> diag]
NoMsg == Msg("", None, <<>>)

\* What subprocess.run gives run_command_with_error: exit status and stderr.
RawResults(diags) ==
  { [rc |-> 0, stderr |-> <<>>] } \cup { [rc |-> 1, stderr |-> d] : d \in diags }

\* run_command_with_error: (True, stdout) or (False, stderr or a fixed text).
run_command_with_error(raw) ==
  IF raw.rc = 0
    THEN [ok |-> TRUE, out |-> <<>>]
    ELSE [ok |-> FALSE,
          out |-> IF raw.stderr # <<>> THEN raw.stderr
                  ELSE <<"Command failed with exit code">>]

----------------------------------------------------------------------------
(* DeviceDetector *)

UsbLine(vid, pid, parts) == [vid |-> vid, pid |-> pid, parts |-> parts]

\* Outputs of `lsusb`: nothing attached (a hub, and a device sharing only the
\* vendor id), the micro:bit attached, and a truncated matching line.
LsusbAbsent  == << UsbLine(FALSE, FALSE, 7), UsbLine(TRUE, FALSE, 7) >>
LsusbPresent == << UsbLine(FALSE, FALSE, 7), UsbLine(TRUE, TRUE, 7) >>
LsusbShort   == << UsbLine(TRUE, TRUE, 3) >>
LsusbOutputs == { LsusbAbsent, LsusbPresent, LsusbShort }

\* detect_microbit: some line holds both ids and has at least 4 fields.
detect_microbit(out) ==
  \E i \in DOMAIN out : out[i].vid /\ out[i].pid /\ out[i].parts >= 4

BlockDev(rm, size, name) == [rm |-> rm, size |-> size, name |-> name]

\* '8.1M' in size or '8M' in size
SizeMatches(size) == size \in {"8.1M", "8M", "128M"}

\* f"/dev/{device['name']}"
DevPath(name) ==
  CASE name = "sda" -> "/dev/sda"
    [] name = "sdb" -> "/dev/sdb"
    [] OTHER -> "/dev/other"

FallbackPaths == << "/dev/sda", "/dev/sdb", "/dev/sdc" >>
NoNodes == [p \in {"/dev/sda", "/dev/sdb", "/dev/sdc"} |-> "absent"]

\* States of the block-device tree: json is how `lsblk -J` parses, devs its
\* 'blockdevices' (name "None": the record has no 'name'), nodes what the
\* probe of each conventional path finds ("absent", "has8", "no8").
BlkNone ==
  [json |-> "object", devs |-> << BlockDev(FALSE, "465.8G", "nvme0n1") >>,
   nodes |-> NoNodes]
BlkSda ==
  [json |-> "object",
   devs |-> << BlockDev(FALSE, "465.8G", "nvme0n1"), BlockDev(TRUE, "8.1M", "sda") >>,
   nodes |-> [NoNodes EXCEPT !["/dev/sda"] = "has8"]]
BlkSdb ==
  [json |-> "object",
   devs |-> << BlockDev(TRUE, "7.5G", "sda"), BlockDev(TRUE, "8M", "sdb") >>,
   nodes |-> [NoNodes EXCEPT !["/dev/sda"] = "no8", !["/dev/sdb"] = "has8"]]
BlkFallback ==
  [json |-> "invalid", devs |-> << >>,
   nodes |-> [NoNodes EXCEPT !["/dev/sda"] = "no8", !["/dev/sdb"] = "has8"]]
BlkNoName ==
  [json |-> "object", devs |-> << BlockDev(TRUE, "8M", None) >>,
   nodes |-> NoNodes]
BlkStates == { BlkNone, BlkSda, BlkSdb, BlkFallback, BlkNoName }

Min(S) == CHOOSE x \in S : \A y \in S : x <= y

\* get_microbit_block_device: the first removable record of matching size
\* ("RAISE": it has no 'name', a KeyError nothing here catches); else the
\* first conventional path that exists and whose probe holds an '8'; else None.
get_microbit_block_device(b) ==
  LET hits == { i \in DOMAIN b.devs :
                  b.devs[i].rm /\ SizeMatches(b.devs[i].size) }
      probes == { i \in DOMAIN FallbackPaths : b.nodes[FallbackPaths[i]] = "has8" }
  IN  IF b.json = "object" /\ hits # {}
        THEN IF b.devs[Min(hits)].name = None
               THEN "RAISE"
               ELSE DevPath(b.devs[Min(hits)].name)
        ELSE IF probes # {} THEN FallbackPaths[Min(probes)] ELSE None

\* The mount table at the mount point: "empty", or a mount made by the
\* manager ("manager") or by anything else ("other").
MountTables == { "empty", "manager", "other" }

\* is_microbit_mounted searching for a path the table never holds.
IsMountedNever(table) == FALSE

\* is_microbit_mounted: the mount point occurs in the output of `mount`.
is_microbit_mounted(table) == table # "empty"

----------------------------------------------------------------------------
(* MountController *)

\* Outcome with the manager reset by every failure.
OutcomeFailureClears(raised, ok, msg, im, dev, osm, mpe, cmds, stderr) ==
  [raised |-> raised, ok |-> ok, msg |-> msg,
   is_mounted |-> IF ok \/ raised THEN im ELSE FALSE,
   microbit_device |-> IF ok \/ raised THEN dev ELSE None,
   mount_table |-> osm, mp_exists |-> mpe, cmds |-> cmds, stderr |-> stderr]

\* What a call returns and leaves behind.
Outcome(raised, ok, msg, im, dev, osm, mpe, cmds, stderr) ==
  [raised |-> raised, ok |-> ok, msg |-> msg, is_mounted |-> im,
   microbit_device |-> dev, mount_table |-> osm, mp_exists |-> mpe,
   cmds |-> cmds, stderr |-> stderr]

\* record_mounted with the assignment of the device lost.
RecordMountedNoDevice(device) == [is_mounted |-> TRUE, microbit_device |-> None]

\* self.is_mounted = True; self.microbit_device = device
record_mounted(device) == [is_mounted |-> TRUE, microbit_device |-> device]

\* mount_microbit, from the manager's flag and device (im, dev0), the block
\* devices b, the mount table osm, the directory mpe and the results mk of
\* `sudo mkdir -p` and mt of `sudo mount`.
mount_microbit(im, dev0, b, osm, mpe, mk, mt) ==
  LET device == get_microbit_block_device(b)
      error_lower == Lower(mt.out)
  IN  IF device = "RAISE"
        THEN Outcome(TRUE, FALSE, NoMsg, im, dev0, osm, mpe, <<"lsblk">>, <<>>)
      ELSE IF device = None
        THEN Outcome(FALSE, FALSE, Msg("No microbit block device found", None, <<>>),
                     im, dev0, osm, mpe, <<"lsblk">>, <<>>)
      ELSE IF is_microbit_mounted(osm)
        THEN Outcome(FALSE, TRUE, Msg("Already mounted to", device, <<>>),
                     record_mounted(device).is_mounted,
                     record_mounted(device).microbit_device, osm, mpe, <<"lsblk", "mount">>, <<>>)
      ELSE IF ~mk.ok
        THEN Outcome(FALSE, FALSE, Msg("Failed to create mount point", None, mk.out),
                     im, dev0, osm, mpe, <<"lsblk", "mount", "sudo mkdir">>, mk.out)
      ELSE IF mt.ok
        THEN Outcome(FALSE, TRUE, Msg("Mounted to", device, <<>>),
                     record_mounted(device).is_mounted,
                     record_mounted(device).microbit_device, "manager", TRUE,
                     <<"lsblk", "mount", "sudo mkdir", "sudo mount">>, <<>>)
      ELSE IF Contains(error_lower, "already mounted")
        THEN Outcome(FALSE, TRUE, Msg("Already mounted", device, <<>>),
                     record_mounted(device).is_mounted,
                     record_mounted(device).microbit_device, osm, TRUE,
                     <<"lsblk", "mount", "sudo mkdir", "sudo mount">>, mt.out)
      ELSE IF Contains(error_lower, "permission denied")
        THEN Outcome(FALSE, FALSE, Msg("Permission denied - run with sudo", None, <<>>),
                     im, dev0, osm, TRUE,
                     <<"lsblk", "mount", "sudo mkdir", "sudo mount">>, mt.out)
      ELSE IF Contains(error_lower, "no such file or directory")
        THEN Outcome(FALSE, FALSE, Msg("Device not found", device, <<>>),
                     im, dev0, osm, TRUE,
                     <<"lsblk", "mount", "sudo mkdir", "sudo mount">>, mt.out)
      ELSE IF Contains(error_lower, "wrong fs type")
              \/ Contains(error_lower, "invalid argument")
        THEN Outcome(FALSE, FALSE, Msg("Cannot mount - unsupported filesystem", device, <<>>),
                     im, dev0, osm, TRUE,
                     <<"lsblk", "mount", "sudo mkdir", "sudo mount">>, mt.out)
      ELSE Outcome(FALSE, FALSE, Msg("Mount failed", None, mt.out),
                   im, dev0, osm, TRUE,
                   <<"lsblk", "mount", "sudo mkdir", "sudo mount">>, mt.out)

\* already_unmounted with the test of the manager's flag lost.
AlreadyUnmountedByTable(im, osm) == ~is_microbit_mounted(osm)

\* already_unmounted with the early return lost.
AlreadyUnmountedIgnored(im, osm) == FALSE

\* not self.is_mounted and not self.is_microbit_mounted()
already_unmounted(im, osm) == ~im /\ ~is_microbit_mounted(osm)

\* unmount_microbit, from the manager's flag and device, the mount table, the
\* directory and the result um of `sudo umount`.
unmount_microbit(im, dev0, osm, mpe, um) ==
  LET error_lower == Lower(um.out)
      probe == IF im THEN <<>> ELSE <<"mount">>
  IN  IF already_unmounted(im, osm)
        THEN Outcome(FALSE, TRUE, Msg("Microbit not mounted", None, <<>>),
                     im, dev0, osm, mpe, <<"mount">>, <<>>)
      ELSE IF um.ok
        THEN Outcome(FALSE, TRUE, Msg("Microbit unmounted successfully", None, <<>>),
                     FALSE, None, "empty", mpe, probe \o <<"sudo umount">>, <<>>)
      ELSE IF Contains(error_lower, "not mounted")
        THEN Outcome(FALSE, TRUE, Msg("Microbit was not mounted", None, <<>>),
                     FALSE, None, osm, mpe, probe \o <<"sudo umount">>, um.out)
      ELSE IF Contains(error_lower, "device is busy")
              \/ Contains(error_lower, "target is busy")
        THEN Outcome(FALSE, FALSE, Msg("Cannot unmount - device is busy", None, <<>>),
                     im, dev0, osm, mpe, probe \o <<"sudo umount">>, um.out)
      ELSE IF Contains(error_lower, "permission denied")
        THEN Outcome(FALSE, FALSE, Msg("Permission denied - run with sudo", None, <<>>),
                     im, dev0, osm, mpe, probe \o <<"sudo umount">>, um.out)
      ELSE IF Contains(error_lower, "no such file or directory")
        THEN Outcome(FALSE, TRUE, Msg("Mount point not found - considering unmounted", None, <<>>),
                     FALSE, None, osm, mpe, probe \o <<"sudo umount">>, um.out)
      ELSE Outcome(FALSE, FALSE, Msg("Unmount failed", None, um.out),
                   im, dev0, osm, mpe, probe \o <<"sudo umount">>, um.out)

----------------------------------------------------------------------------
(* FileCatalog and TransferEngine *)

\* A line of a file: size its length with the newline, len its length once
\* stripped, colon whether that starts with ':', digits whether what follows
\* the colon is hexadecimal digits and nothing else, hex whether int(.., 16)
\* accepts it (it accepts a sign, blanks around and '_' between digits too).
Line(colon, len, digits, hex, size) ==
  [colon |-> colon, len |-> len, digits |-> digits, hex |-> hex, size |-> size]
HexRecord == Line(TRUE, 43, TRUE, TRUE, 44)    \* :10010000214601360121470136007EFE09D2190140
EofRecord == Line(TRUE, 11, TRUE, TRUE, 12)    \* :00000001FF
ShortRecord == Line(TRUE, 5, TRUE, TRUE, 6)    \* :0000
BadRecord == Line(TRUE, 43, FALSE, FALSE, 44)  \* :1001000021460136012147013600ZZZZ09D2190140
SignedRecord == Line(TRUE, 12, FALSE, TRUE, 13) \* :-0000000001
TextLine == Line(FALSE, 60, FALSE, FALSE, 61)
LongText == Line(FALSE, 120, FALSE, FALSE, 121)
BlankLine == Line(FALSE, 0, FALSE, FALSE, 1)

RECURSIVE TotalSize(_)
TotalSize(lines) ==
  IF lines = <<>> THEN 0 ELSE lines[1].size + TotalSize(Tail(lines))

\* f.readlines(hint): lines are taken until their total size exceeds hint.
readlines(lines, hint) ==
  LET enough == { k \in 1..Len(lines) : TotalSize(SubSeq(lines, 1, k)) > hint }
  IN  IF enough = {} THEN lines ELSE SubSeq(lines, 1, Min(enough))

\* lines[:n]
Prefix(lines, n) == SubSeq(lines, 1, IF Len(lines) < n THEN Len(lines) ELSE n)

\* A source file: whether the path exists and is a regular file, how open()
\* ends ("ok", "perm", "other") and its lines.
SourceFile(exists, isfile, open, lines) ==
  [exists |-> exists, isfile |-> isfile, open |-> open, lines |-> lines]

\* validate_hex_file: (valid, reason).
validate_hex_file(f) ==
  LET lines == readlines(f.lines, 100)
      first == Prefix(lines, 10)
      hex_line_count ==
        Cardinality({ i \in DOMAIN first :
                        first[i].colon /\ first[i].len >= 11 /\ first[i].hex })
  IN  IF f.open # "ok"
        THEN [ok |-> FALSE, msg |-> Msg("Cannot validate file", None, <<f.open>>)]
      ELSE IF lines = <<>>
        THEN [ok |-> FALSE, msg |-> Msg("File is empty", None, <<>>)]
      ELSE IF hex_line_count = 0
        THEN [ok |-> FALSE,
              msg |-> Msg("File does not appear to be in Intel HEX format", None, <<>>)]
      ELSE [ok |-> TRUE, msg |-> Msg("Valid HEX file", None, <<>>)]

\* An entry os.listdir gives for the mount point: its name (a number, names
\* numbered in ascending order), whether os.path.isfile holds and whether
\* os.stat succeeds on it.
Entry(name, isfile, stat) == [name |-> name, isfile |-> isfile, stat |-> stat]
Entries == { Entry(n, f, t) : n \in 1..MaxNames, f \in BOOLEAN, t \in BOOLEAN }

\* What os.listdir gives: an exception, or entries of distinct names in any
\* order.
DirListings ==
  [ok : BOOLEAN,
   items : { d \in SeqsUpTo(Entries, MaxEntries) :
               \A i, j \in DOMAIN d : i # j => d[i].name # d[j].name }]

NoFiles == [none |-> TRUE, files |-> <<>>]

\* The dict appended for an entry: its size is 0 and its time 'unknown' when
\* os.stat failed.
FileInfo(e) == [name |-> e.name, known |-> e.stat]

\* SortByName leaving the list in the order of os.listdir.
KeepOrder(files) == files

\* sorted(files, key=lambda x: x['name'])
RECURSIVE SortByName(_)
SortByName(files) ==
  IF files = <<>> THEN <<>>
  ELSE LET m == CHOOSE i \in DOMAIN files :
                  \A j \in DOMAIN files :
                    \/ files[i].name < files[j].name
                    \/ files[i].name = files[j].name /\ i <= j
       IN  << files[m] >> \o
           SortByName(SubSeq(files, 1, m - 1) \o SubSeq(files, m + 1, Len(files)))

\* get_microbit_files: None, or the regular files of the mount point by name.
get_microbit_files(im, mpe, dir) ==
  LET IsFile(e) == e.isfile
      regular == SelectSeq(dir.items, IsFile)
  IN  IF ~im \/ ~mpe THEN NoFiles
      ELSE IF ~dir.ok THEN NoFiles
      ELSE [none |-> FALSE,
            files |-> SortByName([i \in DOMAIN regular |-> FileInfo(regular[i])])]

\* A value a query gives, or its failure (os.statvfs, os.path.getsize).
Got(n) == [ok |-> TRUE, val |-> n]
Failed == [ok |-> FALSE, val |-> 0]
Queries == { Failed } \cup { Got(n) : n \in 0..MaxSize }

\* Fragments a diagnostic of cp is made of.
CpWords == { "No space left on device", "Permission denied",
             "No such file or directory", "Input/output error", "cp: error" }

CopyResult(ok, msg, cmds, stderr) ==
  [ok |-> ok, msg |-> msg, cmds |-> cmds, stderr |-> stderr]

\* verify_copy without the comparison of the sizes.
VerifyExistsOnly(dexists, dsize, size1) ==
  IF ~dexists
    THEN [ok |-> FALSE,
          msg |-> Msg("Copy appeared successful but file not found on microbit", None, <<>>),
          cmds |-> <<"sudo cp">>, stderr |-> <<>>]
    ELSE [ok |-> TRUE, msg |-> Msg("Successfully copied", None, <<>>),
          cmds |-> <<"sudo cp">>, stderr |-> <<>>]

\* The check after `sudo cp` succeeded: the destination exists and
\* getsize gives it (dsize) the size it gives the source (size1).
verify_copy(dexists, dsize, size1) ==
  IF ~dexists
    THEN CopyResult(FALSE,
           Msg("Copy appeared successful but file not found on microbit", None, <<>>),
           <<"sudo cp">>, <<>>)
  ELSE IF ~dsize.ok \/ ~size1.ok
    THEN CopyResult(TRUE, Msg("Copied (verification failed)", None, <<>>),
                    <<"sudo cp">>, <<>>)
  ELSE IF dsize.val # size1.val
    THEN CopyResult(FALSE, Msg("Copy incomplete", None, <<>>), <<"sudo cp">>, <<>>)
  ELSE CopyResult(TRUE, Msg("Successfully copied", None, <<>>), <<"sudo cp">>, <<>>)

\* copy_refused with the test of the flag lost.
CopyRefusedNever(im) == FALSE

\* not self.is_mounted: the test copy_hex_file starts with.
copy_refused(im) == ~im

\* not_enough_space refusing the copy when a query fails.
NotEnoughSpaceStrict(statvfs, size0) ==
  ~statvfs.ok \/ ~size0.ok \/ statvfs.val < size0.val

\* The space check: free_bytes < file_size, with both os.statvfs and
\* os.path.getsize answered; an exception of either skips the check.
not_enough_space(statvfs, size0) ==
  statvfs.ok /\ size0.ok /\ statvfs.val < size0.val

\* copy_hex_file, from the manager's flag, the source file f, how the second
\* open() of the source ends (reopen), the mount-point directory mpe, the
\* free space (statvfs), the sizes getsize gives for the source before the
\* copy (size0) and after it (size1), the result cp of `sudo cp`, and whether
\* the destination exists afterwards and its size (dexists, dsize).
copy_hex_file(im, f, reopen, mpe, statvfs, size0, cp, dexists, dsize, size1) ==
  LET v == validate_hex_file(f)
      error_lower == Lower(cp.out)
  IN  IF copy_refused(im)
        THEN CopyResult(FALSE, Msg("Microbit not mounted", None, <<>>), <<>>, <<>>)
      ELSE IF ~f.exists
        THEN CopyResult(FALSE, Msg("Source file not found", None, <<>>), <<>>, <<>>)
      ELSE IF ~f.isfile
        THEN CopyResult(FALSE, Msg("Source is not a file", None, <<>>), <<>>, <<>>)
      ELSE IF ~v.ok
        THEN CopyResult(FALSE, Msg("Invalid HEX file", None, <<v.msg.text>>), <<>>, <<>>)
      ELSE IF reopen = "perm"
        THEN CopyResult(FALSE, Msg("Permission denied reading source file", None, <<>>),
                        <<>>, <<>>)
      ELSE IF reopen # "ok"
        THEN CopyResult(FALSE, Msg("Cannot read source file", None, <<reopen>>), <<>>, <<>>)
      ELSE IF ~mpe
        THEN CopyResult(FALSE, Msg("Mount point no longer exists", None, <<>>), <<>>, <<>>)
      ELSE IF not_enough_space(statvfs, size0)
        THEN CopyResult(FALSE, Msg("Not enough space on microbit", None, <<>>), <<>>, <<>>)
      ELSE IF cp.ok
        THEN verify_copy(dexists, dsize, size1)
      ELSE IF Contains(error_lower, "no space left")
        THEN CopyResult(FALSE, Msg("No space left on microbit", None, <<>>),
                        <<"sudo cp">>, cp.out)
      ELSE IF Contains(error_lower, "permission denied")
        THEN CopyResult(FALSE, Msg("Permission denied - microbit may be read-only or disconnected",
                                   None, <<>>), <<"sudo cp">>, cp.out)
      ELSE IF Contains(error_lower, "no such file")
        THEN CopyResult(FALSE, Msg("Microbit disconnected during copy", None, <<>>),
                        <<"sudo cp">>, cp.out)
      ELSE IF Contains(error_lower, "input/output error")
        THEN CopyResult(FALSE, Msg("I/O error - microbit may have been disconnected", None, <<>>),
                        <<"sudo cp">>, cp.out)
      ELSE CopyResult(FALSE, Msg("Copy failed", None, cp.out), <<"sudo cp">>, cp.out)

----------------------------------------------------------------------------
(* Inputs of the calls *)

Ok == [ok |-> TRUE, out |-> <<>>]
Results(diags) == { run_command_with_error(raw) : raw \in RawResults(diags) }

\* `sudo umount` cannot succeed on a mount point the mount table does not name.
UmountResults(osm, diags) ==
  { r \in Results(diags) : r.ok => osm # "empty" }

MkdirResults == Results({ <<"Permission denied">> })

\* Everything mount_microbit can do from a state, over what its commands give.
MountOutcomes(im, dev0, b, osm, mpe, diags) ==
  { mount_microbit(im, dev0, b, osm, mpe, mk, mt) :
      mk \in MkdirResults, mt \in Results(diags) }

\* Everything unmount_microbit can do from a state.
UnmountOutcomes(im, dev0, osm, mpe, diags) ==
  { unmount_microbit(im, dev0, osm, mpe, um) : um \in UmountResults(osm, diags) }

FileMissing == SourceFile(FALSE, FALSE, "other", <<>>)
FileIsDir == SourceFile(TRUE, FALSE, "other", <<>>)
FileNoAccess == SourceFile(TRUE, TRUE, "perm", <<>>)
FileEmpty == SourceFile(TRUE, TRUE, "ok", <<>>)
FileText == SourceFile(TRUE, TRUE, "ok", << TextLine, BlankLine, ShortRecord, BadRecord >>)
FileHex == SourceFile(TRUE, TRUE, "ok", << HexRecord, HexRecord, EofRecord >>)
SourceFiles == { FileMissing, FileIsDir, FileNoAccess, FileEmpty, FileText, FileHex }

CopyInputs ==
  [f : SourceFiles, reopen : {"ok", "perm", "other"}, statvfs : Queries,
   size : 0..MaxSize, getsize0 : BOOLEAN, cp : Results({ <<w>> : w \in CpWords }),
   dexists : BOOLEAN, dsize : Queries, getsize1 : BOOLEAN]

\* copy_hex_file on one choice of what its queries and its command give; the
\* source keeps its size c.size through the call.
CopyWith(im, mpe, c) ==
  copy_hex_file(im, c.f, c.reopen, mpe,
                c.statvfs, IF c.getsize0 THEN Got(c.size) ELSE Failed,
                c.cp, c.dexists, c.dsize,
                IF c.getsize1 THEN Got(c.size) ELSE Failed)

\* Everything copy_hex_file can return, by the manager's flag and the directory.
CopyOutcomes ==
  [im \in BOOLEAN |-> [mpe \in BOOLEAN |-> { CopyWith(im, mpe, c) : c \in CopyInputs }]]

\* What the calls of a step were given, and whether the device was unplugged
\* while the latch was set and no poll cycle has seen it connected since.
NoInputs ==
  [op |-> "none", unplugged |-> FALSE, mk |-> Ok, mt |-> Ok, um |-> Ok,
   dir |-> [ok |-> FALSE, items |-> <<>>],
   copy |-> [f |-> FileMissing, reopen |-> "ok", statvfs |-> Failed, size |-> 0,
             getsize0 |-> FALSE, cp |-> Ok, dexists |-> FALSE, dsize |-> Failed,
             getsize1 |-> FALSE]]

----------------------------------------------------------------------------
(* History *)

Idle(step) ==
  [step |-> step, key |-> "", connected |-> FALSE, op |-> "none", ok |-> FALSE,
   msg |-> NoMsg, cmds |-> <<>>, stderr |-> <<>>, raised |-> FALSE,
   exit |-> "none", cleanup |-> "none", seq |-> 0, prev |-> "none", prev_ok |-> FALSE,
   prev_text |-> "", files |-> NoFiles]

Called(rec, op, ok, msg, cmds, stderr) ==
  [rec EXCEPT !.op = op, !.ok = ok, !.msg = msg, !.cmds = cmds, !.stderr = stderr]

----------------------------------------------------------------------------
(* The state after MicrobitManager() and the operating system around it *)

EnvOk ==
  /\ lsusb \in LsusbOutputs
  /\ blk \in BlkStates
  /\ mount_table \in MountTables
  /\ mp_exists \in BOOLEAN
  /\ mount_table # "empty" => mp_exists

Init ==
  /\ is_mounted = FALSE
  /\ microbit_device = None
  /\ status_message = NoMsg
  /\ manual_unmount = FALSE
  /\ selected_file_idx = 0
  /\ hex_files = 0
  /\ pc = "poll"
  /\ EnvOk
  /\ mount_table # "manager"
  /\ last = Idle("init")
  /\ inputs = NoInputs

\* The operating system changes under the program.
UsbChange ==
  /\ pc # "exited"
  /\ \E u \in LsusbOutputs \ {lsusb} :
       /\ lsusb' = u
       /\ inputs' = [inputs EXCEPT !.unplugged =
                        @ \/ (/\ manual_unmount
                              /\ detect_microbit(lsusb) /\ ~detect_microbit(u))]
  /\ last' = Idle("env")
  /\ UNCHANGED << is_mounted, microbit_device, status_message, manual_unmount,
                  ui, pc, blk, mount_table, mp_exists >>

BlkChange ==
  /\ pc # "exited"
  /\ \E b \in BlkStates \ {blk} : blk' = b
  /\ last' = Idle("env")
  /\ UNCHANGED << is_mounted, microbit_device, status_message, manual_unmount,
                  ui, pc, lsusb, mount_table, mp_exists, inputs >>

ExternalMount ==
  /\ pc # "exited"
  /\ mount_table = "empty"
  /\ mount_table' = "other"
  /\ mp_exists' = TRUE
  /\ last' = Idle("env")
  /\ UNCHANGED << is_mounted, microbit_device, status_message, manual_unmount,
                  ui, pc, lsusb, blk, inputs >>

ExternalUnmount ==
  /\ pc # "exited"
  /\ mount_table # "empty"
  /\ mount_table' = "empty"
  /\ last' = Idle("env")
  /\ UNCHANGED << is_mounted, microbit_device, status_message, manual_unmount,
                  ui, pc, lsusb, blk, mp_exists, inputs >>

DirChange ==
  /\ pc # "exited"
  /\ mount_table = "empty"
  /\ mp_exists' = ~mp_exists
  /\ last' = Idle("env")
  /\ UNCHANGED << is_mounted, microbit_device, status_message, manual_unmount,
                  ui, pc, lsusb, blk, mount_table, inputs >>

----------------------------------------------------------------------------
(* run and main_loop *)

NoOutcome(im, dev, osm, mpe) ==
  Outcome(FALSE, FALSE, NoMsg, im, dev, osm, mpe, <<>>, <<>>)

\* The finally clause of run: unmount if the manager believes it is mounted.
run_finally(im, dev, osm, mpe, um) ==
  IF im THEN unmount_microbit(im, dev, osm, mpe, um)
        ELSE NoOutcome(im, dev, osm, mpe)

\* What `sudo umount` can give the finally clause, if it runs it at all.
CleanupResults(im, osm) ==
  IF im THEN UmountResults(osm, ShortDiags) ELSE {Ok}

\* run() ends (kind: "quit", "interrupt", "error") from the manager state
\* (im, dev) and the system state (osm, mpe); um is what `sudo umount` gives.
Leave(kind, rec, im, dev, osm, mpe, um) ==
  LET c == run_finally(im, dev, osm, mpe, um)
  IN  /\ is_mounted' = c.is_mounted
      /\ microbit_device' = c.microbit_device
      /\ mount_table' = c.mount_table
      /\ mp_exists' = c.mp_exists
      /\ pc' = "exited"
      /\ last' = [rec EXCEPT !.exit = kind,
                             !.cmds = rec.cmds \o c.cmds,
                             !.cleanup = IF ~im THEN "none"
                                         ELSE IF c.ok THEN "ok" ELSE "failed"]

\* get_hex_files as the loop sees it: a list of n entries, or the exception
\* of stat() on an entry that vanished after the directory was listed.
Listings ==
  { [raised |-> FALSE, n |-> n] : n \in 0..MaxFiles } \cup { [raised |-> TRUE, n |-> 0] }

\* auto_mount_due without the test of the latch.
AutoMountIgnoringLatch(connected, im, latch) == connected /\ ~im

\* auto_mount_due with the test of the latch inverted.
AutoMountLatchInverted(connected, im, latch) == connected /\ ~im /\ latch

\* auto_unmount_due with the test of the flag inverted.
AutoUnmountFlagInverted(connected, im) == ~connected /\ ~im

\* connected and not self.is_mounted and not self.manual_unmount
auto_mount_due(connected, im, latch) == connected /\ ~im /\ ~latch

\* not connected and self.is_mounted
auto_unmount_due(connected, im) == ~connected /\ im

\* poll_latch clearing the latch in every cycle.
PollLatchAlwaysClear(connected, im, latch) == FALSE

\* The latch after the status check of a cycle.
poll_latch(connected, im, latch) ==
  IF auto_mount_due(connected, im, latch) THEN latch
  ELSE IF auto_unmount_due(connected, im) THEN FALSE
  ELSE IF ~connected THEN FALSE
  ELSE latch

\* One pass of the loop body up to getch(): lines 574-622.
PollCycle ==
  /\ pc = "poll"
  /\ LET connected == detect_microbit(lsusb)
         auto_mount == auto_mount_due(connected, is_mounted, manual_unmount)
         auto_unmount == auto_unmount_due(connected, is_mounted)
         calls == IF auto_mount
                    THEN MountOutcomes(is_mounted, microbit_device, blk,
                                       mount_table, mp_exists, ShortDiags)
                  ELSE IF auto_unmount
                    THEN UnmountOutcomes(is_mounted, microbit_device,
                                         mount_table, mp_exists, ShortDiags)
                  ELSE { NoOutcome(is_mounted, microbit_device, mount_table, mp_exists) }
     IN \E o \in calls, listing \in IF \A c \in calls : c.raised
                                       THEN { [raised |-> FALSE, n |-> 0] }
                                       ELSE Listings :
          LET latch == poll_latch(connected, is_mounted, manual_unmount)
              status == IF auto_mount
                          THEN IF o.ok THEN o.msg ELSE status_message
                        ELSE IF auto_unmount
                          THEN Msg("Microbit disconnected and unmounted", None, <<>>)
                        ELSE status_message
              op == IF auto_mount THEN "mount"
                    ELSE IF auto_unmount THEN "unmount" ELSE "none"
              raised == o.raised \/ listing.raised
              rec == [Called(Idle("poll"), op, o.ok, o.msg, <<"lsusb">> \o o.cmds, o.stderr)
                        EXCEPT !.connected = connected, !.raised = raised]
          IN  /\ manual_unmount' = latch
              /\ status_message' = status
              /\ inputs' = [inputs EXCEPT !.unplugged = @ /\ ~connected]
              /\ UNCHANGED << lsusb, blk >>
              /\ IF raised
                   THEN /\ \E cu \in CleanupResults(o.is_mounted, o.mount_table) :
                             Leave("error", rec, o.is_mounted, o.microbit_device,
                                   o.mount_table, o.mp_exists, cu)
                        /\ UNCHANGED << selected_file_idx, hex_files >>
                   ELSE /\ is_mounted' = o.is_mounted
                        /\ microbit_device' = o.microbit_device
                        /\ mount_table' = o.mount_table
                        /\ mp_exists' = o.mp_exists
                        /\ hex_files' = listing.n
                        /\ selected_file_idx' =
                             IF listing.n > 0
                               THEN IF selected_file_idx < listing.n - 1
                                      THEN selected_file_idx ELSE listing.n - 1
                               ELSE 0
                        /\ pc' = "input"
                        /\ last' = rec

Pressed(key) == [Idle("key") EXCEPT !.key = key]

\* getch() times out, or gives a key no branch handles.
KeyNone ==
  /\ pc = "input"
  /\ pc' = "poll"
  /\ last' = Pressed("none")
  /\ UNCHANGED << is_mounted, microbit_device, status_message, manual_unmount,
                  ui, env, inputs >>

\* 'q': the loop breaks, run's finally clause follows.
KeyQuit ==
  /\ pc = "input"
  /\ \E cu \in CleanupResults(is_mounted, mount_table) :
       Leave("quit", Pressed("q"), is_mounted, microbit_device, mount_table, mp_exists, cu)
  /\ UNCHANGED << status_message, manual_unmount, ui, lsusb, blk, inputs >>

\* KEY_UP or 'k'
KeyUp ==
  /\ pc = "input"
  /\ selected_file_idx' =
       IF hex_files > 0 /\ selected_file_idx > 0
         THEN selected_file_idx - 1 ELSE selected_file_idx
  /\ pc' = "poll"
  /\ last' = Pressed("up")
  /\ UNCHANGED << is_mounted, microbit_device, status_message, manual_unmount,
                  hex_files, env, inputs >>

\* KEY_DOWN or 'j'
KeyDown ==
  /\ pc = "input"
  /\ selected_file_idx' =
       IF hex_files > 0 /\ selected_file_idx < hex_files - 1
         THEN selected_file_idx + 1 ELSE selected_file_idx
  /\ pc' = "poll"
  /\ last' = Pressed("down")
  /\ UNCHANGED << is_mounted, microbit_device, status_message, manual_unmount,
                  hex_files, env, inputs >>

\* ENTER: copy the selected file.
KeyEnter ==
  /\ pc = "input"
  /\ IF hex_files > 0 /\ is_mounted
       THEN \E o \in CopyOutcomes[is_mounted][mp_exists] :
              /\ status_message' = o.msg
              /\ last' = Called(Pressed("enter"), "copy", o.ok, o.msg, o.cmds, o.stderr)
       ELSE /\ status_message' =
                 IF ~is_mounted
                   THEN Msg("Microbit not mounted - press 'm' to mount", None, <<>>)
                   ELSE Msg("No hex files to copy", None, <<>>)
            /\ last' = Pressed("enter")
  /\ pc' = "poll"
  /\ UNCHANGED << is_mounted, microbit_device, manual_unmount, ui, env, inputs >>

\* key_latch following the command whether or not it succeeded.
KeyLatchUnconditional(im, ok, latch) == im

\* The latch after 'm' pressed with the flag im: set by an unmount that
\* succeeded, cleared by a mount that succeeded, kept otherwise.
key_latch(im, ok, latch) == IF ok THEN im ELSE latch

\* 'm': unmount if mounted, mount otherwise; the latch follows a success.
KeyMount ==
  /\ pc = "input"
  /\ \E o \in IF is_mounted
                  THEN UnmountOutcomes(is_mounted, microbit_device,
                                       mount_table, mp_exists, ShortDiags)
                  ELSE MountOutcomes(is_mounted, microbit_device, blk,
                                     mount_table, mp_exists, ShortDiags) :
       LET rec == [Called(Pressed("m"), IF is_mounted THEN "unmount" ELSE "mount",
                          o.ok, o.msg, o.cmds, o.stderr) EXCEPT !.raised = o.raised]
       IN  IF o.raised
             THEN /\ Leave("error", rec, o.is_mounted, o.microbit_device,
                           o.mount_table, o.mp_exists, Ok)
                  /\ UNCHANGED << status_message, manual_unmount >>
             ELSE /\ is_mounted' = o.is_mounted
                  /\ microbit_device' = o.microbit_device
                  /\ mount_table' = o.mount_table
                  /\ mp_exists' = o.mp_exists
                  /\ manual_unmount' = key_latch(is_mounted, o.ok, manual_unmount)
                  /\ status_message' = o.msg
                  /\ pc' = "poll"
                  /\ last' = rec
  /\ inputs' = [inputs EXCEPT !.unplugged = FALSE]
  /\ UNCHANGED << ui, lsusb, blk >>

\* 'r'
KeyRefresh ==
  /\ pc = "input"
  /\ status_message' = Msg("File list refreshed", None, <<>>)
  /\ pc' = "poll"
  /\ last' = Pressed("r")
  /\ UNCHANGED << is_mounted, microbit_device, manual_unmount, ui, env, inputs >>

\* 'i': toggles the firmware panel when mounted; the panel's flag is read by
\* the drawing code only and is not kept here, so the text names no state.
KeyInfo ==
  /\ pc = "input"
  /\ status_message' = IF is_mounted
                         THEN Msg("Firmware info", None, <<>>)
                         ELSE Msg("Microbit not mounted", None, <<>>)
  /\ pc' = "poll"
  /\ last' = Pressed("i")
  /\ UNCHANGED << is_mounted, microbit_device, manual_unmount, ui, env, inputs >>

\* Ctrl-C while the loop runs: KeyboardInterrupt, caught by run, then finally.
Interrupt ==
  /\ pc \in {"poll", "input"}
  /\ \E cu \in CleanupResults(is_mounted, mount_table) :
       Leave("interrupt", Idle("exit"), is_mounted, microbit_device,
             mount_table, mp_exists, cu)
  /\ UNCHANGED << status_message, manual_unmount, ui, lsusb, blk, inputs >>

Next ==
  \/ UsbChange
  \/ BlkChange
  \/ ExternalMount
  \/ ExternalUnmount
  \/ DirChange
  \/ PollCycle
  \/ KeyNone
  \/ KeyQuit
  \/ KeyUp
  \/ KeyDown
  \/ KeyEnter
  \/ KeyMount
  \/ KeyRefresh
  \/ KeyInfo
  \/ Interrupt

Spec == Init /\ [][Next]_vars

----------------------------------------------------------------------------
(* The operations called directly, in any order, as the system changes *)

Api(op, o, raised) ==
  [Called(Idle("api"), op, o.ok, o.msg, o.cmds, o.stderr)
     EXCEPT !.raised = raised, !.seq = 1 - last.seq,
            !.prev = last.op, !.prev_ok = last.ok, !.prev_text = last.msg.text]

Apply(o) ==
  /\ is_mounted' = o.is_mounted
  /\ microbit_device' = o.microbit_device
  /\ mount_table' = o.mount_table
  /\ mp_exists' = o.mp_exists

CallMount ==
  /\ \E o \in MountOutcomes(is_mounted, microbit_device, blk,
                            mount_table, mp_exists, ShortDiags) :
       /\ Apply(o)
       /\ last' = Api("mount", o, o.raised)
  /\ UNCHANGED << status_message, manual_unmount, ui, pc, lsusb, blk, inputs >>

CallUnmount ==
  /\ \E o \in UnmountOutcomes(is_mounted, microbit_device,
                              mount_table, mp_exists, ShortDiags) :
       /\ Apply(o)
       /\ last' = Api("unmount", o, o.raised)
  /\ UNCHANGED << status_message, manual_unmount, ui, pc, lsusb, blk, inputs >>

CallCopy ==
  /\ \E o \in CopyOutcomes[is_mounted][mp_exists] :
       last' = Api("copy", o, FALSE)
  /\ UNCHANGED << is_mounted, microbit_device, status_message, manual_unmount,
                  ui, pc, env, inputs >>

NextApi ==
  \/ UsbChange
  \/ BlkChange
  \/ ExternalMount
  \/ ExternalUnmount
  \/ DirChange
  \/ CallMount
  \/ CallUnmount
  \/ CallCopy

SpecApi == Init /\ [][NextApi]_vars

----------------------------------------------------------------------------
(* One call of mount_microbit or unmount_microbit, over every diagnostic *)

\* The manager as the program leaves it: unmounted with no device, or
\* mounted with the device it resolved.
ManagerStates ==
  { << FALSE, None >>, << TRUE, "/dev/sda" >>, << TRUE, "/dev/sdb" >> }

InitCall ==
  /\ \E m \in ManagerStates :
       /\ is_mounted = m[1]
       /\ microbit_device = m[2]
  /\ status_message = NoMsg
  /\ manual_unmount \in BOOLEAN
  /\ manual_unmount => ~is_mounted
  /\ selected_file_idx = 0
  /\ hex_files = 0
  /\ pc = "poll"
  /\ EnvOk
  /\ lsusb = LsusbPresent
  /\ last = Idle("init")
  /\ inputs = NoInputs

OneMount ==
  /\ last.step = "init"
  /\ \E mk \in MkdirResults, mt \in Results(Diags) :
       LET o == mount_microbit(is_mounted, microbit_device, blk,
                               mount_table, mp_exists, mk, mt)
       IN  /\ Apply(o)
           /\ last' = Api("mount", o, o.raised)
           /\ inputs' = [NoInputs EXCEPT !.op = "mount", !.mk = mk, !.mt = mt]
  /\ UNCHANGED << status_message, manual_unmount, ui, pc, lsusb, blk >>

OneUnmount ==
  /\ last.step = "init"
  /\ \E um \in UmountResults(mount_table, Diags) :
       LET o == unmount_microbit(is_mounted, microbit_device,
                                 mount_table, mp_exists, um)
       IN  /\ Apply(o)
           /\ last' = Api("unmount", o, o.raised)
           /\ inputs' = [NoInputs EXCEPT !.op = "unmount", !.um = um]
  /\ UNCHANGED << status_message, manual_unmount, ui, pc, lsusb, blk >>

NextCall ==
  \/ OneMount
  \/ OneUnmount

SpecCall == InitCall /\ [][NextCall]_vars

----------------------------------------------------------------------------
(* One copy request, over everything the queries of copy_hex_file can give:
   the method called on a manager, or ENTER pressed in the loop *)

InitCopy ==
  /\ \E m \in ManagerStates :
       /\ is_mounted = m[1]
       /\ microbit_device = m[2]
  /\ status_message = NoMsg
  /\ manual_unmount \in BOOLEAN
  /\ manual_unmount => ~is_mounted
  /\ selected_file_idx = 0
  /\ hex_files \in 0..MaxFiles
  /\ pc \in {"poll", "input"}
  /\ pc = "poll" => (hex_files = 0 /\ ~manual_unmount)
  /\ lsusb = LsusbPresent
  /\ blk = BlkSda
  /\ mount_table \in MountTables
  /\ mp_exists \in BOOLEAN
  /\ mount_table # "empty" => mp_exists
  /\ last = Idle("init")
  /\ inputs = NoInputs

OneCopy ==
  /\ last.step = "init"
  /\ pc = "poll"
  /\ \E c \in CopyInputs :
       LET o == CopyWith(is_mounted, mp_exists, c)
       IN  /\ last' = Api("copy", o, FALSE)
           /\ inputs' = [NoInputs EXCEPT !.op = "copy", !.copy = c]
  /\ UNCHANGED << is_mounted, microbit_device, status_message, manual_unmount,
                  ui, pc, env >>

\* ENTER, once, where the loop waits for a key.
OneEnter ==
  /\ last.step = "init"
  /\ KeyEnter

NextCopy ==
  \/ OneCopy
  \/ OneEnter

SpecCopy == InitCopy /\ [][NextCopy]_vars

----------------------------------------------------------------------------
(* One call of validate_hex_file, over files of a few lines *)

LineKinds ==
  { HexRecord, EofRecord, ShortRecord, BadRecord, SignedRecord, TextLine,
    LongText, BlankLine }

Pad(k) == [i \in 1..k |-> BlankLine]

\* Files of up to MaxPad blank lines followed by up to MaxLines lines.
ValidatedFiles ==
  { SourceFile(TRUE, TRUE, open, Pad(k) \o body) :
      open \in {"ok", "perm", "other"}, k \in 0..MaxPad,
      body \in SeqsUpTo(LineKinds, MaxLines) }

InitValidate ==
  /\ is_mounted = FALSE
  /\ microbit_device = None
  /\ status_message = NoMsg
  /\ manual_unmount = FALSE
  /\ selected_file_idx = 0
  /\ hex_files = 0
  /\ pc = "poll"
  /\ lsusb = LsusbAbsent
  /\ blk = BlkNone
  /\ mount_table = "empty"
  /\ mp_exists = FALSE
  /\ last = Idle("init")
  /\ \E f \in ValidatedFiles : inputs = [NoInputs EXCEPT !.copy.f = f]

OneValidate ==
  /\ last.step = "init"
  /\ LET v == validate_hex_file(inputs.copy.f)
     IN  last' = [Idle("api") EXCEPT !.op = "validate", !.ok = v.ok, !.msg = v.msg]
  /\ inputs' = [inputs EXCEPT !.op = "validate"]
  /\ UNCHANGED << is_mounted, microbit_device, status_message, manual_unmount,
                  ui, pc, env >>

NextValidate ==
  \/ OneValidate

SpecValidate == InitValidate /\ [][NextValidate]_vars

----------------------------------------------------------------------------
(* One call of get_microbit_files, over what os.listdir can give *)

InitFiles ==
  /\ \E m \in ManagerStates :
       /\ is_mounted = m[1]
       /\ microbit_device = m[2]
  /\ status_message = NoMsg
  /\ manual_unmount = FALSE
  /\ selected_file_idx = 0
  /\ hex_files = 0
  /\ pc = "poll"
  /\ lsusb = LsusbPresent
  /\ blk = BlkSda
  /\ mount_table \in MountTables
  /\ mp_exists \in BOOLEAN
  /\ mount_table # "empty" => mp_exists
  /\ last = Idle("init")
  /\ \E d \in DirListings : inputs = [NoInputs EXCEPT !.dir = d]

OneList ==
  /\ last.step = "init"
  /\ last' = [Idle("api") EXCEPT
               !.op = "list",
               !.files = get_microbit_files(is_mounted, mp_exists, inputs.dir)]
  /\ inputs' = [inputs EXCEPT !.op = "list"]
  /\ UNCHANGED << is_mounted, microbit_device, status_message, manual_unmount,
                  ui, pc, env >>

NextFiles ==
  \/ OneList

SpecFiles == InitFiles /\ [][NextFiles]_vars

----------------------------------------------------------------------------
(* Properties *)

Issued(rec, c) == \E i \in DOMAIN rec.cmds : rec.cmds[i] = c
HasFragment(text, w) == \E i \in DOMAIN text : text[i] = w
Resolved(b) == get_microbit_block_device(b) \notin { None, "RAISE" }

\* C1: after a manual unmount that succeeds the manager is unmounted with the
\* latch set; from then on a poll cycle that detects the device attempts no
\* mount and leaves the manager unmounted, and the latch stays set until the
\* user presses 'm' again or a poll cycle finds the device gone.
C1_AfterManualUnmount ==
  (last.step = "key" /\ last.key = "m" /\ last.op = "unmount" /\ last.ok)
    => (~is_mounted /\ manual_unmount)
C1_PollKeepsOff ==
  (manual_unmount /\ ~is_mounted /\ last'.step = "poll" /\ last'.connected)
    => /\ last'.op = "none"
       /\ ~Issued(last', "sudo mount")
       /\ ~is_mounted'
       /\ manual_unmount'
C1_LatchStays ==
  (/\ manual_unmount /\ ~is_mounted
   /\ last'.key # "m"
   /\ ~(last'.step = "poll" /\ ~last'.connected))
    => (manual_unmount' /\ ~is_mounted')
C1_ManualUnmountSticks ==
  /\ []C1_AfterManualUnmount
  /\ [][C1_PollKeepsOff /\ C1_LatchStays]_vars
C1_Witness ==
  /\ last.step = "poll" /\ last.connected /\ last.exit = "none"
  /\ manual_unmount /\ ~is_mounted
  /\ status_message.text = "Microbit unmounted successfully"

\* C2: a poll cycle that runs to its end from a state where the device is
\* detected, the manager is not mounted and the latch is clear calls mount;
\* if the block device resolves and the mount point is mounted already or the
\* mount command succeeds, the call succeeds, and on success the manager is
\* mounted with the device resolved in that cycle.
C2_AutoMountStep ==
  (/\ last'.step = "poll" /\ last'.connected /\ last'.exit = "none"
   /\ ~is_mounted /\ ~manual_unmount)
    => /\ last'.op = "mount"
       /\ (/\ Resolved(blk)
           /\ \/ mount_table # "empty"
              \/ Issued(last', "sudo mount") /\ last'.stderr = <<>>) => last'.ok
       /\ last'.ok => /\ is_mounted'
                      /\ Resolved(blk)
                      /\ microbit_device' = get_microbit_block_device(blk)
C2_AutoMount == [][C2_AutoMountStep]_vars
C2_Witness ==
  /\ last.step = "poll" /\ last.op = "mount" /\ last.ok
  /\ Issued(last, "sudo mount") /\ last.stderr = <<>>
  /\ is_mounted /\ microbit_device = "/dev/sdb" /\ mount_table = "manager"

C3_ForcedUnmountStep ==
  (/\ last'.step = "poll" /\ ~last'.connected /\ last'.exit = "none"
   /\ is_mounted)
    => /\ last'.op = "unmount"
       /\ Issued(last', "sudo umount")
       /\ ~manual_unmount'
       /\ last'.ok => (~is_mounted' /\ microbit_device' = None)
       /\ ~last'.ok => (is_mounted' /\ microbit_device' = microbit_device)
C4_ExitUnmounts == pc = "exited" => mount_table # "manager"

\* C5: after every poll cycle the manager's flag agrees with the mount table.
C5_PollRederivesMountState ==
  (last.step = "poll" /\ last.exit = "none")
    => (is_mounted <=> mount_table # "empty")

\* C6 as stated: mount() called when already mounted succeeds and leaves the
\* recorded device as it was.
C6_Original ==
  [][ (/\ last'.step = "api" /\ last'.op = "mount"
       /\ is_mounted /\ mount_table # "empty")
        => (last'.ok /\ microbit_device' = microbit_device) ]_vars

\* C6, amended: mount() called while the mount table names the mount point
\* succeeds exactly when a block device resolves; it then issues no privileged
\* command and records the resolved device; when none resolves it fails and
\* changes nothing; a second call in a row after a successful one succeeds
\* too and leaves the recorded device as the first left it.
C6_MountedStep ==
  (last'.step = "api" /\ last'.op = "mount" /\ mount_table # "empty")
    => /\ Resolved(blk) =>
            /\ last'.ok
            /\ last'.cmds = <<"lsblk", "mount">>
            /\ is_mounted'
            /\ microbit_device' = get_microbit_block_device(blk)
            /\ mount_table' = mount_table
       /\ ~Resolved(blk) =>
            /\ ~last'.ok
            /\ is_mounted' = is_mounted
            /\ microbit_device' = microbit_device
       /\ (last.step = "api" /\ last.op = "mount" /\ last.ok) =>
            /\ last'.ok
            /\ microbit_device' = microbit_device
C6_MountWhenMounted == [][C6_MountedStep]_vars
C6_Witness ==
  /\ last.step = "api" /\ last.op = "mount" /\ last.ok
  /\ last.msg.text = "Already mounted to"
  /\ last.prev = "mount" /\ last.prev_ok /\ last.prev_text = "Already mounted to"

\* C7: unmount() called while the manager is not mounted and the mount table
\* does not name the mount point succeeds, issues no unmount command and
\* leaves the manager unmounted with no device, however often it is repeated.
C7_UnmountedStep ==
  (/\ last'.step = "api" /\ last'.op = "unmount"
   /\ ~is_mounted /\ mount_table = "empty")
    => /\ last'.ok
       /\ ~Issued(last', "sudo umount")
       /\ ~is_mounted'
       /\ microbit_device' = None
       /\ mount_table' = "empty"
C7_UnmountWhenUnmounted == [][C7_UnmountedStep]_vars
C7_Witness ==
  /\ last.step = "api" /\ last.op = "unmount" /\ last.ok
  /\ last.msg.text = "Microbit not mounted"
  /\ last.prev = "unmount" /\ last.prev_ok /\ last.prev_text = "Microbit not mounted"
  /\ ~is_mounted /\ microbit_device = None

\* C8: an unmount() whose command fails with a diagnostic holding "device is
\* busy" or "target is busy" reports the busy failure.
C8_BusyAlwaysFails ==
  (/\ inputs.op = "unmount" /\ Issued(last, "sudo umount") /\ ~inputs.um.ok
   /\ \/ HasFragment(inputs.um.out, "device is busy")
      \/ HasFragment(inputs.um.out, "target is busy"))
    => (~last.ok /\ last.msg.text = "Cannot unmount - device is busy")

\* C9: a mount() whose command fails with a diagnostic holding "already
\* mounted" in either letter case reports success and leaves the manager
\* mounted with the resolved device.
C9_AlreadyMountedAnyCase ==
  (/\ inputs.op = "mount" /\ Issued(last, "sudo mount") /\ ~inputs.mt.ok
   /\ \/ HasFragment(inputs.mt.out, "already mounted")
      \/ HasFragment(inputs.mt.out, "ALREADY MOUNTED"))
    => /\ last.ok
       /\ is_mounted
       /\ Resolved(blk)
       /\ microbit_device = get_microbit_block_device(blk)
C9_Witness ==
  /\ inputs.op = "mount" /\ Issued(last, "sudo mount") /\ ~inputs.mt.ok
  /\ inputs.mt.out = << "Permission denied", "ALREADY MOUNTED" >>
  /\ last.ok /\ is_mounted /\ microbit_device = "/dev/sda"

\* C10 as stated: a copy whose command succeeded but whose destination has
\* another size than the source fails as incomplete, and copy() succeeds only
\* with the two sizes read and equal.
C10_Original ==
  inputs.op = "copy" =>
    /\ (/\ Issued(last, "sudo cp") /\ inputs.copy.cp.ok /\ inputs.copy.dexists
        /\ inputs.copy.dsize.ok /\ inputs.copy.dsize.val # inputs.copy.size)
         => (~last.ok /\ last.msg.text = "Copy incomplete")
    /\ last.ok => /\ inputs.copy.dexists
                  /\ inputs.copy.dsize.ok /\ inputs.copy.getsize1
                  /\ inputs.copy.dsize.val = inputs.copy.size

\* C10, amended: with both sizes read and different the copy fails as
\* incomplete; copy() succeeds only after the command succeeded and the
\* destination was seen, with the sizes read and equal or with a size that
\* could not be read, which it reports as a failed verification.
C10_CopyVerified ==
  inputs.op = "copy" =>
    /\ (/\ Issued(last, "sudo cp") /\ inputs.copy.cp.ok /\ inputs.copy.dexists
        /\ inputs.copy.dsize.ok /\ inputs.copy.getsize1
        /\ inputs.copy.dsize.val # inputs.copy.size)
         => (~last.ok /\ last.msg.text = "Copy incomplete")
    /\ last.ok =>
         /\ Issued(last, "sudo cp") /\ inputs.copy.cp.ok /\ inputs.copy.dexists
         /\ \/ /\ inputs.copy.dsize.ok /\ inputs.copy.getsize1
               /\ inputs.copy.dsize.val = inputs.copy.size
               /\ last.msg.text = "Successfully copied"
            \/ /\ ~inputs.copy.dsize.ok \/ ~inputs.copy.getsize1
               /\ last.msg.text = "Copied (verification failed)"
C10_Witness ==
  /\ inputs.op = "copy" /\ Issued(last, "sudo cp") /\ inputs.copy.cp.ok
  /\ inputs.copy.dexists /\ inputs.copy.dsize.ok /\ inputs.copy.getsize1
  /\ inputs.copy.dsize.val # inputs.copy.size
  /\ ~last.ok /\ last.msg.text = "Copy incomplete"

\* C11: a copy requested while the manager is not mounted runs no command
\* and changes neither the flag, the device, the latch nor the system;
\* copy_hex_file returns the failure "Microbit not mounted", and ENTER in the
\* loop calls no copy and shows the not-mounted status.
C11_Requested == (last'.step = "api" /\ last'.op = "copy") \/ last'.key = "enter"
C11_Step ==
  (~is_mounted /\ C11_Requested)
    => /\ last'.cmds = <<>>
       /\ UNCHANGED << is_mounted, microbit_device, manual_unmount, env >>
       /\ last'.step = "api" =>
            (~last'.ok /\ last'.msg.text = "Microbit not mounted")
       /\ last'.key = "enter" =>
            /\ last'.op = "none"
            /\ status_message'.text = "Microbit not mounted - press 'm' to mount"
C11_CopyWhenUnmounted == [][C11_Step]_vars
C11_Witness ==
  /\ last.step = "api" /\ last.op = "copy" /\ ~last.ok
  /\ ~is_mounted /\ microbit_device = None
  /\ inputs.copy.f = FileHex /\ inputs.copy.cp.ok /\ mount_table = "other"
  /\ last.msg.text = "Microbit not mounted" /\ last.cmds = <<>>

\* C12: in every reachable state a mounted manager has a recorded block
\* device, whatever the commands of the calls before gave.
C12_MountedHasDevice == is_mounted => microbit_device # None
C12_Witness ==
  /\ last.step = "key" /\ last.key = "m" /\ last.op = "unmount" /\ ~last.ok
  /\ Issued(last, "sudo umount")
  /\ is_mounted /\ microbit_device = "/dev/sdb"

\* C13: the latch goes from clear to set only in a step where 'm' unmounts
\* with success, and from set to clear only in a poll cycle that finds the
\* device gone or in a step where 'm' mounts with success.
C13_Step ==
  /\ (~manual_unmount /\ manual_unmount')
       => (last'.key = "m" /\ last'.op = "unmount" /\ last'.ok)
  /\ (manual_unmount /\ ~manual_unmount')
       => \/ last'.step = "poll" /\ ~last'.connected
          \/ last'.key = "m" /\ last'.op = "mount" /\ last'.ok
C13_LatchChanges == [][C13_Step]_vars
C13_Witness ==
  /\ manual_unmount /\ ~is_mounted
  /\ last.key = "m" /\ last.op = "unmount" /\ last.ok
  /\ last.msg.text = "Microbit was not mounted"

\* C14 as stated: after 'm' has unmounted the latch is set, after 'm' has
\* mounted the latch is clear.
C14_Original ==
  [][ (last'.key = "m" /\ last'.exit = "none")
        => /\ last'.op = "unmount" => manual_unmount'
           /\ last'.op = "mount" => ~manual_unmount' ]_vars

\* C14, amended: 'm' calls unmount when the manager is mounted and mount
\* when it is not, whatever the latch; a call that succeeds sets the latch
\* (unmount) or clears it (mount), a call that fails leaves it as it was.
C14_Step ==
  last'.key = "m"
    => /\ last'.op = (IF is_mounted THEN "unmount" ELSE "mount")
       /\ last'.exit = "none" =>
            /\ last'.ok => (manual_unmount' = is_mounted)
            /\ ~last'.ok => (manual_unmount' = manual_unmount)
C14_UserCommandLatch == [][C14_Step]_vars
C14_Witness ==
  /\ last.key = "m" /\ last.op = "mount" /\ ~last.ok /\ last.exit = "none"
  /\ Issued(last, "sudo mount")
  /\ manual_unmount /\ ~is_mounted

\* C15: after a poll cycle or a key in which mount, unmount or copy ran and
\* returned a failure, the status message is the message that call returned,
\* and the loop goes on.
C15_StatusShowsOutcome ==
  (/\ last.step \in {"poll", "key"} /\ last.op # "none"
   /\ ~last.ok /\ ~last.raised)
    => (status_message = last.msg /\ pc # "exited")

\* C16: no poll cycle and no key handler ends the loop with an exception.
C16_NoOperationAborts == last.exit # "error"

\* C20: ENTER reports a copy as successful only while the mount table names
\* the mount point.
C20_CopyNeedsMountTable ==
  (last.key = "enter" /\ last.op = "copy" /\ last.ok) => mount_table # "empty"

\* C19: once the device has been unplugged while the latch was set, the
\* first poll cycle that finds it connected again, with the manager not
\* mounted, calls mount without a key being pressed.
C19_ReplugAutoMounts ==
  [][ (/\ inputs.unplugged
       /\ last'.step = "poll" /\ last'.connected /\ ~is_mounted)
        => last'.op = "mount" ]_vars

\* C17: a readable file none of whose first ten lines is ':' followed by
\* hexadecimal digits is rejected with the Intel HEX format reason, a file
\* of fewer than ten lines or of none included.
NoMarkedLine(lines) ==
  \A i \in DOMAIN Prefix(lines, 10) : ~(lines[i].colon /\ lines[i].digits)
C17_RejectsUnmarked ==
  (/\ inputs.op = "validate" /\ inputs.copy.f.open = "ok"
   /\ NoMarkedLine(inputs.copy.f.lines))
    => /\ ~last.ok
       /\ last.msg.text = "File does not appear to be in Intel HEX format"

\* C18: get_microbit_files returns None whenever the manager is not mounted;
\* when it is mounted, the mount point exists and os.listdir succeeds, it
\* returns the regular files of the mount point, none or more, in ascending
\* order of their names.
C18_ListDeviceFiles ==
  inputs.op = "list" =>
    /\ ~is_mounted => last.files.none
    /\ (is_mounted /\ mp_exists /\ inputs.dir.ok) =>
         /\ ~last.files.none
         /\ \A i, j \in DOMAIN last.files.files :
              i < j => last.files.files[i].name < last.files.files[j].name
         /\ { last.files.files[i].name : i \in DOMAIN last.files.files }
              = { inputs.dir.items[i].name :
                    i \in { k \in DOMAIN inputs.dir.items : inputs.dir.items[k].isfile } }
C18_Witness ==
  /\ inputs.op = "list" /\ is_mounted /\ mp_exists /\ inputs.dir.ok
  /\ Len(inputs.dir.items) = 2
  /\ inputs.dir.items[1].isfile /\ inputs.dir.items[2].isfile
  /\ inputs.dir.items[1].name > inputs.dir.items[2].name
  /\ ~last.files.none /\ Len(last.files.files) = 2
  /\ last.files.files[1].name = inputs.dir.items[2].name

\* C21: whenever unmount_microbit returns success (the command succeeded,
\* its diagnostic says not mounted or names a missing mount point, or there
\* was nothing to unmount), the manager is left unmounted with no device.
C21_UnmountSuccessClears ==
  (last.step = "api" /\ last.op = "unmount" /\ last.ok)
    => (~is_mounted /\ microbit_device = None)
C21_Witness ==
  /\ last.step = "api" /\ last.op = "unmount" /\ last.ok
  /\ inputs.um.out = << "wrong fs type", "No such file or directory" >>
  /\ last.msg.text = "Mount point not found - considering unmounted"
  /\ ~is_mounted /\ microbit_device = None /\ mount_table = "manager"

\* C22: a call of mount_microbit or unmount_microbit that returns failure
\* leaves the manager's flag, its device and the latch as they were.
C22_Step ==
  (/\ last'.step = "api" /\ last'.op \in {"mount", "unmount"}
   /\ ~last'.ok /\ ~last'.raised)
    => UNCHANGED << is_mounted, microbit_device, manual_unmount >>
C22_FailureChangesNothing == [][C22_Step]_vars
C22_Witness ==
  /\ last.step = "api" /\ last.op = "unmount" /\ ~last.ok
  /\ last.msg.text = "Cannot unmount - device is busy"
  /\ is_mounted /\ microbit_device = "/dev/sdb" /\ mount_table = "manager"

\* C23: mount_microbit that resolves no block device fails with "No microbit
\* block device found" after lsblk alone; when `sudo mkdir -p` fails it fails
\* without `sudo mount`; `sudo mount` is issued only with a block device
\* resolved, the mount table not naming the mount point and mkdir succeeded,
\* as the last of the four commands.
C23_Step ==
  (last'.step = "api" /\ last'.op = "mount")
    => /\ get_microbit_block_device(blk) = None =>
            /\ ~last'.ok
            /\ last'.msg.text = "No microbit block device found"
            /\ last'.cmds = << "lsblk" >>
       /\ (Issued(last', "sudo mkdir") /\ ~inputs'.mk.ok) =>
            /\ ~last'.ok
            /\ last'.msg.text = "Failed to create mount point"
            /\ ~Issued(last', "sudo mount")
       /\ Issued(last', "sudo mount") =>
            /\ Resolved(blk)
            /\ mount_table = "empty"
            /\ inputs'.mk.ok
            /\ last'.cmds = << "lsblk", "mount", "sudo mkdir", "sudo mount" >>
C23_MountStepsInOrder == [][C23_Step]_vars
C23_Witness ==
  /\ last.step = "api" /\ last.op = "mount" /\ ~last.ok
  /\ inputs.op = "mount" /\ ~inputs.mk.ok /\ inputs.mt.ok
  /\ last.msg.text = "Failed to create mount point"
  /\ last.cmds = << "lsblk", "mount", "sudo mkdir" >>
  /\ ~is_mounted /\ mount_table = "empty"

\* The copy got as far as the space check; what it returns; what it would
\* return with enough space reported.
C24_Reached ==
  /\ inputs.op = "copy" /\ is_mounted /\ mp_exists
  /\ inputs.copy.f.exists /\ inputs.copy.f.isfile
  /\ validate_hex_file(inputs.copy.f).ok /\ inputs.copy.reopen = "ok"
C24_Returned ==
  [ok |-> last.ok, msg |-> last.msg, cmds |-> last.cmds, stderr |-> last.stderr]
C24_WithSpace ==
  CopyWith(is_mounted, mp_exists,
           [inputs.copy EXCEPT !.statvfs = Got(inputs.copy.size), !.getsize0 = TRUE])
C24_Refused ==
  /\ ~last.ok
  /\ last.msg.text = "Not enough space on microbit"
  /\ last.cmds = <<>>

\* C24 as stated: with the free space read and smaller than the size of the
\* source the copy fails for lack of space and issues no command; with the
\* free space not read it goes on as with enough space.
C24_Original ==
  C24_Reached =>
    /\ (inputs.copy.statvfs.ok /\ inputs.copy.statvfs.val < inputs.copy.size)
         => C24_Refused
    /\ ~inputs.copy.statvfs.ok
         => (Issued(last, "sudo cp") /\ C24_Returned = C24_WithSpace)

\* C24, amended: the copy fails for lack of space, with no command issued,
\* when both the free space and the size of the source are read and the
\* first is smaller; when either cannot be read it issues the copy command
\* and returns what it returns with enough space.
C24_AdvisorySpaceCheck ==
  C24_Reached =>
    /\ (/\ inputs.copy.statvfs.ok /\ inputs.copy.getsize0
         /\ inputs.copy.statvfs.val < inputs.copy.size)
         => C24_Refused
    /\ (~inputs.copy.statvfs.ok \/ ~inputs.copy.getsize0)
         => (Issued(last, "sudo cp") /\ C24_Returned = C24_WithSpace)
    /\ (/\ inputs.copy.statvfs.ok /\ inputs.copy.getsize0
         /\ inputs.copy.statvfs.val >= inputs.copy.size)
         => Issued(last, "sudo cp")
C24_Witness ==
  /\ C24_Reached /\ ~inputs.copy.statvfs.ok /\ inputs.copy.size > 0
  /\ Issued(last, "sudo cp") /\ last.ok
  /\ last.msg.text = "Successfully copied"

====
